---- MODULE Spec2Model ----
(***************************************************************************)
(* State-machine model of src/src/game.ts: the snake game's scan reducer   *)
(* (turning, movement, death, eating, growth, food respawn), the rxjs      *)
(* pipeline around it (timer, withLatestFrom, startWith, takeWhile,        *)
(* takeUntil), the renderer in the subscribe callback, and the             *)
(* process-wide currentGame slot driven by the start button.               *)
(***************************************************************************)
EXTENDS Integers, Sequences, FiniteSets, TLC

(* ------------------------------------------------------------------ *)
(* Bounds of the model                                                 *)
(* ------------------------------------------------------------------ *)

\* Number of timer emissions explored per subscription.
MaxTicks == 4

\* Bounding sizes (pixels) the svg surface may have when the page loads.
SurfaceSizes == { <<80, 80>>, <<55, 40>>, <<40, 50>> }

(* ------------------------------------------------------------------ *)
(* Program constants and types                                         *)
(* ------------------------------------------------------------------ *)

CELL_SIZE == 16

Headings == { "N", "E", "S", "W" }

\* Values of KeyboardEvent.key the document may deliver.
Keys == { "ArrowUp", "ArrowRight", "ArrowDown", "ArrowLeft", "Enter" }

\* An optional value (undefined, or one value) is a sequence of length <= 1.
Undefined == << >>

Some(v) == << v >>

Last(s) == s[Len(s)]

(* ------------------------------------------------------------------ *)
(* Heading and CellLocation                                            *)
(* ------------------------------------------------------------------ *)

\* isOpposite with the "N" case compared against "E".
isOpposite_Typo(heading1, heading2) ==
    CASE heading1 = "N" -> heading2 = "E"
      [] heading1 = "E" -> heading2 = "W"
      [] heading1 = "S" -> heading2 = "N"
      [] heading1 = "W" -> heading2 = "E"
      [] OTHER -> FALSE

isOpposite(heading1, heading2) ==
    CASE heading1 = "N" -> heading2 = "S"
      [] heading1 = "E" -> heading2 = "W"
      [] heading1 = "S" -> heading2 = "N"
      [] heading1 = "W" -> heading2 = "E"
      [] OTHER -> FALSE

CellLocation(x, y) == [x |-> x, y |-> y]

next(cell, heading) ==
    CASE heading = "N" -> CellLocation(cell.x, cell.y - 1)
      [] heading = "E" -> CellLocation(cell.x + 1, cell.y)
      [] heading = "S" -> CellLocation(cell.x, cell.y + 1)
      [] heading = "W" -> CellLocation(cell.x - 1, cell.y)
      [] OTHER -> cell

\* get id(): this.x + "_" + this.y
id(cell) == ToString(cell.x) \o "_" \o ToString(cell.y)

(* ------------------------------------------------------------------ *)
(* Board                                                               *)
(* ------------------------------------------------------------------ *)

\* constructor: Math.floor(domRect.width / cellSize), same for height.
Board(rect, cellSize) ==
    [width |-> rect[1] \div cellSize,
     height |-> rect[2] \div cellSize,
     cellSize |-> cellSize]

startSnake(board, size, heading) ==
    LET centre == CellLocation(board.width \div 2, board.height \div 2)
    IN  << centre, next(centre, heading) >>

\* isWithinBounds with <= for the upper limits.
isWithinBounds_Inclusive(board, location) ==
    /\ location.x >= 0
    /\ location.x <= board.width
    /\ location.y >= 0
    /\ location.y <= board.height

isWithinBounds(board, location) ==
    /\ location.x >= 0
    /\ location.x < board.width
    /\ location.y >= 0
    /\ location.y < board.height

getRect(board, cellLocation) ==
    [x |-> cellLocation.x * board.cellSize,
     y |-> cellLocation.y * board.cellSize,
     width |-> board.cellSize,
     height |-> board.cellSize]

\* The results Board.random() can produce: Math.random() is in [0, 1), so
\* Math.floor(Math.random() * n) is in 0..n-1 (and is 0 when n = 0).
RandomCells(board) ==
    { CellLocation(x, y) :
        x \in 0 .. (IF board.width > 0 THEN board.width - 1 ELSE 0),
        y \in 0 .. (IF board.height > 0 THEN board.height - 1 ELSE 0) }

(* ------------------------------------------------------------------ *)
(* Array helpers                                                       *)
(* ------------------------------------------------------------------ *)

\* Array.prototype.find with the predicate x.id === wanted: the first match,
\* or Undefined.
find(body, wanted) ==
    LET hits == { i \in 1 .. Len(body) : id(body[i]) = wanted }
    IN  IF hits = {} THEN Undefined
        ELSE Some(body[CHOOSE i \in hits : \A j \in hits : i <= j])

\* Array.prototype.slice(1)
slice1(body) == IF Len(body) = 0 THEN << >> ELSE Tail(body)

RemoveAt(s, i) == SubSeq(s, 1, i - 1) \o SubSeq(s, i + 1, Len(s))

(* ------------------------------------------------------------------ *)
(* GameState and the scan reducer (Game.gameOn)                        *)
(* ------------------------------------------------------------------ *)

\* state0: the seed of scan, also emitted first by startWith.
state0(board) ==
    LET start == startSnake(board, 2, "E")
    IN  [isAlive |-> TRUE,
         snake |-> [body |-> start, heading |-> "E"],
         snakeEvolution |-> [newHead |-> start, oldTail |-> << >>],
         foodLocation |-> Undefined]

\* Turn resolution honouring every request, reversals included.
newHeading_NoGuard(a, sampledHeading) == sampledHeading

newHeading(a, sampledHeading) ==
    IF isOpposite(a.snake.heading, sampledHeading)
    THEN a.snake.heading
    ELSE sampledHeading

newHead(a, sampledHeading) ==
    next(Last(a.snake.body), newHeading(a, sampledHeading))

\* didDie without the self-collision test.
didDie_WallsOnly(board, a, head) == ~isWithinBounds(board, head)

\* didDie testing the body without its oldest cell.
didDie_IgnoresTail(board, a, head) ==
    \/ ~isWithinBounds(board, head)
    \/ find(slice1(a.snake.body), id(head)) # Undefined

didDie(board, a, head) ==
    \/ ~isWithinBounds(board, head)
    \/ find(a.snake.body, id(head)) # Undefined

didEat(a, head) ==
    /\ a.foodLocation # Undefined
    /\ id(a.foodLocation[1]) = id(head)

\* The death branch committing the attempted heading.
deadState_Committed(a, sampledHeading) ==
    [a EXCEPT !.isAlive = FALSE, !.snake.heading = newHeading(a, sampledHeading)]

\* return { ...acc, isAlive: false }
deadState(a, sampledHeading) == [a EXCEPT !.isAlive = FALSE]

\* The eating branch dropping the oldest cell.
grownBody_DropsTail(a, head) == Append(slice1(a.snake.body), head)

\* [...acc.snake.body, newHead]
grownBody(a, head) == Append(a.snake.body, head)

\* The non-eating branch keeping the oldest cell.
movedBody_KeepsTail(a, head) == Append(a.snake.body, head)

\* [...acc.snake.body.slice(1), newHead]
movedBody(a, head) == Append(slice1(a.snake.body), head)

\* The food rule sampling a new cell only after eating.
newFood_OnlyWhenEaten(a, ate, rnd) == IF ate THEN Some(rnd) ELSE a.foodLocation

\* didEat || !acc.foodLocation ? this.board.random() : acc.foodLocation
newFood(a, ate, rnd) ==
    IF ate \/ a.foodLocation = Undefined
    THEN Some(rnd)
    ELSE a.foodLocation

\* The object returned by the surviving branch; rnd is what this.board.random()
\* returns if it is called.
aliveState(a, sampledHeading, rnd) ==
    LET head == newHead(a, sampledHeading)
        ate == didEat(a, head)
    IN  [isAlive |-> TRUE,
         snake |-> [body |-> IF ate THEN grownBody(a, head) ELSE movedBody(a, head),
                    heading |-> newHeading(a, sampledHeading)],
         snakeEvolution |-> [newHead |-> << head >>,
                             oldTail |-> IF ate THEN << >> ELSE << a.snake.body[1] >>],
         foodLocation |-> newFood(a, ate, rnd)]

\* Whether the surviving branch calls this.board.random().
callsRandom(board, a, sampledHeading) ==
    /\ ~didDie(board, a, newHead(a, sampledHeading))
    /\ \/ didEat(a, newHead(a, sampledHeading))
       \/ a.foodLocation = Undefined

\* The reducer given to scan: (acc, [tick, heading]) -> next acc.
reducer(board, a, sampledHeading, rnd) ==
    IF didDie(board, a, newHead(a, sampledHeading))
    THEN deadState(a, sampledHeading)
    ELSE aliveState(a, sampledHeading, rnd)

\* takeWhile letting every state through.
takeWhile_PassAll(gameState) == TRUE

\* takeWhile((gameState) => gameState.isAlive): whether the state is passed on;
\* the first state that is not completes the stream and is dropped.
takeWhile(gameState) == gameState.isAlive

(* ------------------------------------------------------------------ *)
(* The drawing surface and the subscribe callback (renderer)           *)
(* ------------------------------------------------------------------ *)

\* A rect element as the callback builds it: attributes are strings.
svgRect(rect, elementId) ==
    [id |-> elementId,
     x |-> ToString(rect.x),
     y |-> ToString(rect.y),
     width |-> ToString(rect.width),
     height |-> ToString(rect.height)]

\* svg.getElementById: index of the first child with that id, 0 for null.
getElementById(children, elementId) ==
    LET hits == { i \in 1 .. Len(children) : children[i].id = elementId }
    IN  IF hits = {} THEN 0 ELSE CHOOSE i \in hits : \A j \in hits : i <= j

\* newHead.forEach(... this.svg.appendChild(svgRect))
appendCells(board, children, cells) ==
    children \o [i \in 1 .. Len(cells) |-> svgRect(getRect(board, cells[i]), id(cells[i]))]

\* oldTail.forEach(c => this.svg.getElementById(c.id).remove()); a null
\* lookup throws out of the callback.
RECURSIVE removeCells(_, _)
removeCells(children, cells) ==
    IF cells = << >> THEN [children |-> children, threw |-> FALSE]
    ELSE LET i == getElementById(children, id(Head(cells)))
         IN  IF i = 0 THEN [children |-> children, threw |-> TRUE]
             ELSE removeCells(RemoveAt(children, i), Tail(cells))

\* The food part of the callback removing the "food" element only when the
\* state has no food.
renderFood_KeepsOld(board, children, gameState) ==
    LET i == getElementById(children, "food")
        stale == i # 0 /\ gameState.foodLocation = Undefined
        kept == IF stale THEN RemoveAt(children, i) ELSE children
    IN  IF gameState.foodLocation # Undefined
        THEN Append(kept, svgRect(getRect(board, gameState.foodLocation[1]), "food"))
        ELSE kept

\* The food part of the callback: drop the stale "food" element (its id
\* attribute, "food", is compared with the food cell's id), then add one for
\* the state's food.
renderFood(board, children, gameState) ==
    LET i == getElementById(children, "food")
        stale == /\ i # 0
                 /\ \/ gameState.foodLocation = Undefined
                    \/ id(gameState.foodLocation[1]) # children[i].id
        kept == IF stale THEN RemoveAt(children, i) ELSE children
    IN  IF gameState.foodLocation # Undefined
        THEN Append(kept, svgRect(getRect(board, gameState.foodLocation[1]), "food"))
        ELSE kept

\* addScore showing the number of cells eaten instead of the body length.
addScore_Eaten(score) == "score: " \o ToString(score - 2)

\* addScore: the text it puts in #score, scoreP.textContent = `score: ${score}`
addScore(score) == "score: " \o ToString(score)

\* The whole subscribe callback on one delivered state. When a lookup throws,
\* the rest of the callback is skipped; whether the subscription survives the
\* exception depends on the rxjs version, so the actions leave live open then.
subscriber(board, children, text, gameState) ==
    LET added == appendCells(board, children, gameState.snakeEvolution.newHead)
        removed == removeCells(added, gameState.snakeEvolution.oldTail)
    IN  IF removed.threw
        THEN [children |-> removed.children, scoreText |-> text, threw |-> TRUE]
        ELSE [children |-> renderFood(board, removed.children, gameState),
              scoreText |-> IF gameState.foodLocation # Undefined
                            THEN Some(addScore(Len(gameState.snake.body)))
                            ELSE text,
              threw |-> FALSE]

\* endGame: the text it puts in #endScore, scoreSpan.textContent = ` ${score}`
\* (the end-of-game form it also shows and wires is outside the model).
endGame(score) == " " \o ToString(score)

\* keyHeading with the vertical arrows exchanged.
keyHeading_Flipped(key) ==
    CASE key = "ArrowUp" -> Some("S")
      [] key = "ArrowRight" -> Some("E")
      [] key = "ArrowDown" -> Some("N")
      [] key = "ArrowLeft" -> Some("W")
      [] OTHER -> Undefined

\* The heading a keydown maps to (filter + map), Undefined if filtered out.
keyHeading(key) ==
    CASE key = "ArrowUp" -> Some("N")
      [] key = "ArrowRight" -> Some("E")
      [] key = "ArrowDown" -> Some("S")
      [] key = "ArrowLeft" -> Some("W")
      [] OTHER -> Undefined

\* The arrow keys the filter of heading$ lets through.
ArrowKeys == { "ArrowUp", "ArrowRight", "ArrowDown", "ArrowLeft" }

\* abandon() leaving the child nodes in place.
abandon_KeepsChildren(children) == children

\* abandon(): after destroyed$.next(), the while loop removes every child
\* node; the result is the list of children left.
abandon(children) == << >>

\* takeUntil letting the subscriptions run on.
takeUntil_Ignored(active) == active

\* takeUntil(this.destroyed$): the number of the game's subscriptions still
\* active once destroyed$ has emitted.
takeUntil(active) == 0

\* destroyed$ replaying its last emission to a new subscriber.
destroyedReplays_Last(emitted) == emitted

\* destroyed$ is a plain Subject: an emission made before takeUntil
\* subscribes is not replayed, whether or not one was made.
destroyedReplays(emitted) == FALSE

(* ------------------------------------------------------------------ *)
(* State                                                               *)
(* ------------------------------------------------------------------ *)

VARIABLES
    domRect,        \* svg.getBoundingClientRect(): << width, height >> in pixels
    currentGame,    \* the module-level slot: Undefined or Some(Game)
    subscriptions,  \* number of active subscriptions of the pipeline
    destroyed,      \* history: destroyed$ has emitted (abandon() has run)
    latest,         \* the value withLatestFrom holds for heading$ (Undefined if none)
    lastKey,        \* history: the last arrow key pressed during this subscription
    acc,            \* scan's accumulator: Undefined before the first game
    ticks,          \* number of values timer$ has emitted to this subscription
    svg,            \* children of the svg element, in document order
    scoreText,      \* what this subscription last wrote to #score (Undefined if nothing yet)
    endScore,       \* what this subscription wrote to #endScore (Undefined if nothing yet)
    sampled,        \* history: the headings handed to the reducer by this subscription
    nDelivered,     \* history: states the subscribe callback got from this subscription
    lastDelivered,  \* history: the last state the subscribe callback got
    endCalls        \* history: calls of endGame made by this subscription

vars == << domRect, currentGame, subscriptions, destroyed, latest, lastKey, acc,
           ticks, svg, scoreText, endScore, sampled, nDelivered, lastDelivered,
           endCalls >>

\* The pipeline is subscribed: timer$ and heading$ feed the reducer.
live == subscriptions > 0

\* new Game(svg, CELL_SIZE)
Game(rect, cellSize) == [board |-> Board(rect, cellSize), cellSize |-> cellSize]

Init ==
    /\ domRect \in SurfaceSizes
    /\ currentGame = Undefined
    /\ subscriptions = 0
    /\ destroyed = FALSE
    /\ latest = Undefined
    /\ lastKey = Undefined
    /\ acc = Undefined
    /\ ticks = 0
    /\ svg = << >>
    /\ scoreText = Undefined
    /\ endScore = Undefined
    /\ sampled = << >>
    /\ nDelivered = 0
    /\ lastDelivered = Undefined
    /\ endCalls = 0

(* ------------------------------------------------------------------ *)
(* Actions                                                             *)
(* ------------------------------------------------------------------ *)

\* A click on the start button: the exported gameOn(svg), i.e. abandon() of
\* the existing game or construction of the first one, then Game.gameOn(),
\* whose subscribe delivers state0 synchronously.
GameOn ==
    LET replacing == currentGame # Undefined
        game == IF replacing THEN currentGame[1] ELSE Game(domRect, CELL_SIZE)
        \* abandon(): destroyed$.next(), then every child node is removed
        running == IF replacing THEN takeUntil(subscriptions) ELSE subscriptions
        cleared == IF replacing THEN abandon(svg) ELSE svg
        first == state0(game.board)
        drawn == subscriber(game.board, cleared, Undefined, first)
        delivered == takeWhile(first) /\ ~destroyedReplays(destroyed \/ replacing)
    IN  /\ currentGame' = Some(game)
        /\ destroyed' = (destroyed \/ replacing)
        /\ latest' = Some("E")
        /\ lastKey' = Undefined
        /\ acc' = Some(first)
        /\ ticks' = 0
        /\ sampled' = << >>
        /\ endCalls' = 0
        /\ IF delivered
           THEN /\ svg' = drawn.children
                /\ scoreText' = drawn.scoreText
                /\ nDelivered' = 1
                /\ lastDelivered' = Some(first)
                /\ subscriptions' \in
                     (IF drawn.threw THEN {running, running + 1} ELSE {running + 1})
           ELSE /\ svg' = cleared
                /\ scoreText' = Undefined
                /\ nDelivered' = 0
                /\ lastDelivered' = Undefined
                /\ subscriptions' = running
        /\ endScore' = Undefined
        /\ UNCHANGED domRect

\* A keydown on the document while the pipeline is subscribed: heading$ emits
\* for the four arrow keys, and withLatestFrom stores the value.
KeyDown(key) ==
    /\ live
    /\ latest' = IF keyHeading(key) # Undefined THEN keyHeading(key) ELSE latest
    /\ lastKey' = IF key \in ArrowKeys THEN Some(key) ELSE lastKey
    /\ UNCHANGED << domRect, currentGame, subscriptions, destroyed, acc, ticks,
                    svg, scoreText, endScore, sampled, nDelivered, lastDelivered,
                    endCalls >>

\* What Board.random() may return to the reducer on this tick; one fixed value
\* stands for "not called", since the reducer then never reads it.
RandomDraws(board, a, sampledHeading) ==
    IF callsRandom(board, a, sampledHeading)
    THEN RandomCells(board)
    ELSE { CellLocation(0, 0) }

\* One emission of timer$: withLatestFrom pairs it with the stored heading, the
\* reducer runs (calling endGame when the snake dies), takeWhile passes the
\* state on or completes the stream, and the subscribe callback renders it.
Tick ==
    /\ live
    /\ ticks < MaxTicks
    /\ \E rnd \in RandomDraws(currentGame[1].board, acc[1], latest[1]) :
         LET board == currentGame[1].board
             heading == latest[1]
             died == didDie(board, acc[1], newHead(acc[1], heading))
             state == reducer(board, acc[1], heading, rnd)
             drawn == subscriber(board, svg, scoreText, state)
         IN  /\ acc' = Some(state)
             /\ ticks' = ticks + 1
             /\ sampled' = Append(sampled, heading)
             /\ IF died
                THEN /\ endScore' = Some(endGame(Len(acc[1].snake.body)))
                     /\ endCalls' = endCalls + 1
                ELSE UNCHANGED << endScore, endCalls >>
             /\ IF takeWhile(state)
                THEN /\ svg' = drawn.children
                     /\ scoreText' = drawn.scoreText
                     /\ nDelivered' = nDelivered + 1
                     /\ lastDelivered' = Some(state)
                     /\ subscriptions' \in
                          (IF drawn.threw
                           THEN {subscriptions - 1, subscriptions}
                           ELSE {subscriptions})
                     /\ latest' = latest
                ELSE /\ subscriptions' = subscriptions - 1
                     /\ latest' = Undefined
                     /\ UNCHANGED << svg, scoreText, nDelivered, lastDelivered >>
    /\ UNCHANGED << domRect, currentGame, destroyed, lastKey >>

\* The svg element gets another bounding size (the page is laid out again).
Resize(rect) ==
    /\ rect # domRect
    /\ domRect' = rect
    /\ UNCHANGED << currentGame, subscriptions, destroyed, latest, lastKey, acc,
                    ticks, svg, scoreText, endScore, sampled, nDelivered,
                    lastDelivered, endCalls >>

Next ==
    \/ GameOn
    \/ \E key \in Keys : KeyDown(key)
    \/ Tick

Spec == Init /\ [][Next]_vars

\* The same program on a page whose svg element may change size.
NextSurface ==
    \/ Next
    \/ \E rect \in SurfaceSizes : Resize(rect)

SpecSurface == Init /\ [][NextSurface]_vars

(* ------------------------------------------------------------------ *)
(* Vocabulary of the properties                                        *)
(* ------------------------------------------------------------------ *)

Started == acc # Undefined

Alive == Started /\ acc[1].isAlive

Dead == Started /\ ~acc[1].isAlive

\* A step in which timer$ emitted, and one in which the start button was not
\* clicked (a step of the running session).
TickStep == ticks' = ticks + 1

SameSession == ~GameOn

OppositePair(h1, h2) == {h1, h2} \in { {"N", "S"}, {"E", "W"} }

Effective(previous, sampledHeading) ==
    IF OppositePair(previous, sampledHeading) THEN previous ELSE sampledHeading

Moved(cell, h) ==
    [x |-> cell.x + (IF h = "E" THEN 1 ELSE IF h = "W" THEN -1 ELSE 0),
     y |-> cell.y + (IF h = "S" THEN 1 ELSE IF h = "N" THEN -1 ELSE 0)]

\* The head the tick now firing would produce from the current state.
Attempt == Moved(Last(acc[1].snake.body), Effective(acc[1].snake.heading, latest[1]))

OnBoard(cell) ==
    /\ 0 <= cell.x /\ cell.x < currentGame[1].board.width
    /\ 0 <= cell.y /\ cell.y < currentGame[1].board.height

InBody(cell, body) == \E i \in 1 .. Len(body) : body[i] = cell

Adjacent(c, d) ==
    \/ c.x = d.x /\ (c.y - d.y) \in {-1, 1}
    \/ c.y = d.y /\ (c.x - d.x) \in {-1, 1}

(* ------------------------------------------------------------------ *)
(* Properties                                                          *)
(* ------------------------------------------------------------------ *)

\* C1 (turn resolution, no reversal): in every tick that the snake survives,
\* the new heading is the previous heading when the sampled heading is its
\* exact opposite and the sampled heading otherwise, and the new head is the
\* old head moved one cell in that heading.
C1_TurnResolution ==
    [][ (TickStep /\ acc'[1].isAlive) =>
          /\ acc'[1].snake.heading = Effective(acc[1].snake.heading, latest[1])
          /\ Last(acc'[1].snake.body)
               = Moved(Last(acc[1].snake.body), acc'[1].snake.heading) ]_vars

\* A surviving tick that sampled the exact opposite of the heading.
C1_Witness ==
    /\ Alive
    /\ sampled # << >>
    /\ OppositePair(Last(sampled), acc[1].snake.heading)

\* C2 (body distinctness): in every alive state the cells of snake.body are
\* pairwise distinct.
C2_BodyDistinct ==
    Alive =>
      \A i, j \in 1 .. Len(acc[1].snake.body) :
        i # j => acc[1].snake.body[i] # acc[1].snake.body[j]

\* An alive snake of length >= 4 whose head lies next to its own tail cell.
C2_Witness ==
    /\ Alive
    /\ Len(acc[1].snake.body) >= 4
    /\ Adjacent(Last(acc[1].snake.body), acc[1].snake.body[1])

\* C3 (death test): a tick from an alive state yields isAlive = false exactly
\* when the new head is off the board or equals a cell of the pre-move body,
\* the tail cell included.
C3_DeathTest ==
    [][ TickStep =>
          (acc'[1].isAlive = FALSE)
            = (~OnBoard(Attempt) \/ InBody(Attempt, acc[1].snake.body)) ]_vars

\* A death by moving onto the tail cell a non-eating move would have vacated.
C3_Witness ==
    /\ Dead
    /\ Len(acc[1].snake.body) >= 4
    /\ Moved(Last(acc[1].snake.body),
             Effective(acc[1].snake.heading, Last(sampled))) = acc[1].snake.body[1]

\* C4 (growth law): a surviving tick whose new head equals the food of the
\* previous state yields the whole previous body followed by the new head
\* (length + 1), evolution.added = [newHead] and evolution.removed = [].
C4_GrowthLaw ==
    [][ ( /\ TickStep
          /\ acc'[1].isAlive
          /\ acc[1].foodLocation # Undefined
          /\ acc[1].foodLocation[1] = Attempt ) =>
          /\ acc'[1].snake.body = acc[1].snake.body \o << Attempt >>
          /\ Len(acc'[1].snake.body) = Len(acc[1].snake.body) + 1
          /\ acc'[1].snakeEvolution.newHead = << Attempt >>
          /\ acc'[1].snakeEvolution.oldTail = << >> ]_vars

\* A state produced by an eating tick.
C4_Witness ==
    /\ Alive
    /\ ticks > 0
    /\ acc[1].snakeEvolution.oldTail = << >>
    /\ Len(acc[1].snake.body) = 3

\* C5 (shrink-invariant law): a surviving tick that does not eat (no food, or
\* food elsewhere) yields the previous body without its oldest cell followed
\* by the new head (same length), evolution.added = [newHead] and
\* evolution.removed = [the oldest cell of the previous body].
C5_ShrinkInvariantLaw ==
    [][ ( /\ TickStep
          /\ acc'[1].isAlive
          /\ \/ acc[1].foodLocation = Undefined
             \/ acc[1].foodLocation[1] # Attempt ) =>
          /\ acc'[1].snake.body = Tail(acc[1].snake.body) \o << Attempt >>
          /\ Len(acc'[1].snake.body) = Len(acc[1].snake.body)
          /\ acc'[1].snakeEvolution.newHead = << Attempt >>
          /\ acc'[1].snakeEvolution.oldTail = << acc[1].snake.body[1] >> ]_vars

\* A state produced by a tick that had food on the board and did not eat it,
\* taken by a snake that had grown before.
C5_Witness ==
    /\ Alive
    /\ ticks >= 3
    /\ Len(acc[1].snake.body) = 3
    /\ Len(acc[1].snakeEvolution.oldTail) = 1

\* C6 (terminal monotonicity): once a tick of a session has produced
\* isAlive = false, no later step of that session delivers a state, runs the
\* reducer or changes the accumulator: the subscription is over and nothing
\* but a new click on the start button changes the game's state.
C6_TerminalMonotonicity ==
    [][ (Dead /\ SameSession) =>
          /\ ~live /\ ~live'
          /\ UNCHANGED << acc, ticks, sampled, nDelivered, lastDelivered,
                          endCalls, svg >> ]_vars

\* A dead session that the timer could still have driven further.
C6_Witness == Dead /\ ticks < MaxTicks /\ ~live

\* C7 as stated: the terminal state is the state the renderer got last (it
\* was delivered), endGame was called once and the stream is over.
C7_TerminalDelivered ==
    Dead => /\ lastDelivered = acc
            /\ endCalls = 1
            /\ ~live

\* C7 (natural termination, amended): the terminal state is never delivered
\* to the renderer, whose last delivery is the last alive state (state0 and
\* one state per surviving tick were delivered); endGame is called exactly
\* once, by the dying tick and not before; the stream is then over.
C7_TerminalNotDelivered ==
    /\ Alive => endCalls = 0 /\ nDelivered = ticks + 1
    /\ Dead => /\ lastDelivered = Some([acc[1] EXCEPT !.isAlive = TRUE])
               /\ nDelivered = ticks
               /\ endCalls = 1
               /\ ~live

\* A session that died after at least one surviving tick.
C7_Witness == Dead /\ ticks >= 2 /\ endCalls = 1

\* C8 (death leaves snake and food unchanged): the state a dying tick
\* produces has the body, the heading and the food of the previous state.
C8_DeathFrame ==
    [][ (TickStep /\ ~acc'[1].isAlive) =>
          /\ acc'[1].snake.body = acc[1].snake.body
          /\ acc'[1].snake.heading = acc[1].snake.heading
          /\ acc'[1].foodLocation = acc[1].foodLocation ]_vars

\* A death on a turn (the attempted heading differs from the committed one and
\* is not its opposite) with food on the board.
C8_Witness ==
    /\ Dead
    /\ acc[1].foodLocation # Undefined
    /\ Last(sampled) # acc[1].snake.heading
    /\ ~OppositePair(Last(sampled), acc[1].snake.heading)

\* C9 as stated: the state a dying tick produces has an empty diff.
C9_DeathEmptyDiff ==
    Dead => /\ acc[1].snakeEvolution.newHead = << >>
            /\ acc[1].snakeEvolution.oldTail = << >>

\* The 5 x 5 board of the bounds scenario.
Board5x5 ==
    /\ currentGame # Undefined
    /\ currentGame[1].board.width = 5
    /\ currentGame[1].board.height = 5

\* C10 as stated: on the 5 x 5 board, with East sampled on both of the first
\* two ticks, the state after them is alive with body [(3,2),(4,2)].
C10_AliveAfterTwoTicks ==
    (Board5x5 /\ sampled = << "E", "E" >>) =>
      /\ acc[1].isAlive
      /\ acc[1].snake.body = << [x |-> 3, y |-> 2], [x |-> 4, y |-> 2] >>

\* C10 (bounds scenario, amended): on the 5 x 5 board the session starts with
\* body [(2,2),(3,2)] heading East; with East sampled on every tick, the state
\* after 1 tick is alive with body [(3,2),(4,2)], and the 2nd tick (head would
\* move to (5,2)) yields isAlive = false with that body unchanged.
C10_BoundsScenario ==
    Board5x5 =>
      /\ ticks = 0 =>
           /\ acc[1].isAlive
           /\ acc[1].snake.heading = "E"
           /\ acc[1].snake.body = << [x |-> 2, y |-> 2], [x |-> 3, y |-> 2] >>
      /\ sampled = << "E" >> =>
           /\ acc[1].isAlive
           /\ acc[1].snake.body = << [x |-> 3, y |-> 2], [x |-> 4, y |-> 2] >>
      /\ sampled = << "E", "E" >> =>
           /\ ~acc[1].isAlive
           /\ acc[1].snake.body = << [x |-> 3, y |-> 2], [x |-> 4, y |-> 2] >>

\* The scenario has run: two ticks on the 5 x 5 board, East sampled on both.
C10_Witness == Board5x5 /\ sampled = << "E", "E" >>

\* C11 as stated: after every call of gameOn(surface), also one made while a
\* game exists, the active session uses a board whose dimensions are derived
\* from the surface as it is at that call.
C11_BoardFromSurfaceAtCall ==
    [][ GameOn => currentGame'[1].board = Board(domRect, CELL_SIZE) ]_vars

\* C12 (single active session): whatever clicks on the start button, ticks,
\* key presses and deaths have occurred, at most one subscription of the
\* pipeline is active, so no tick runs the reducer or the renderer for two
\* streams; and an active one belongs to the game in the currentGame slot.
C12_SingleStream ==
    /\ subscriptions \in {0, 1}
    /\ live => currentGame # Undefined

\* A session that replaced an earlier one, has taken key presses and is
\* ticking as the only stream.
C12_Witness ==
    /\ destroyed
    /\ subscriptions = 1
    /\ ticks >= 1
    /\ lastKey # Undefined

\* C13 (cancellation): a click on the start button while a game exists runs
\* abandon(); when the click has been handled the stream that was running is
\* gone (alive or not, it delivers nothing more and calls endGame no more: the
\* one active subscription, the deliveries and the endGame calls are those of
\* the new stream), and the surface holds no child of the earlier session,
\* only the two start cells the new stream has drawn. The new stream is not
\* hit by the earlier signal: it stays subscribed for as long as its snake is
\* alive.
C13_Cancellation ==
    /\ [][ (GameOn /\ currentGame # Undefined) =>
             /\ subscriptions' = 1
             /\ nDelivered' = 1
             /\ endCalls' = 0
             /\ acc'[1].isAlive /\ lastDelivered' = acc'
             /\ Len(svg') = 2
             /\ \A i \in 1 .. 2 : svg'[i].id = id(acc'[1].snake.body[i]) ]_vars
    /\ [](destroyed /\ Alive => live)

\* A stream started after a cancellation that has run two ticks and is alive.
C13_Witness ==
    /\ destroyed
    /\ Alive
    /\ live
    /\ ticks >= 2

\* The heading an arrow key asks for.
Asked(key) ==
    IF key = "ArrowUp" THEN "N"
    ELSE IF key = "ArrowDown" THEN "S"
    ELSE IF key = "ArrowLeft" THEN "W"
    ELSE "E"

\* C14 (latest value wins): the heading every tick hands to the reducer is
\* the one asked for by the last arrow key pressed since the session started,
\* whatever keys were pressed before it or other keys after it, and East if
\* no arrow key was pressed; a tick does not consume the input, so the same
\* heading is sampled again by the following ticks until another key comes.
C14_LatestValueWins ==
    [][ TickStep =>
          /\ Last(sampled') = IF lastKey = Undefined THEN "E" ELSE Asked(lastKey[1])
          /\ lastKey' = lastKey
          /\ live' => latest' = latest ]_vars

\* Two consecutive ticks sampled North, asked for by the last arrow key.
C14_Witness ==
    /\ Len(sampled) >= 2
    /\ sampled[Len(sampled)] = "N"
    /\ sampled[Len(sampled) - 1] = "N"
    /\ lastKey = Some("ArrowUp")
    /\ live

\* C15 (food respawn rule): a surviving tick that ate, or that started with
\* no food, leaves a food cell somewhere in [0,width) x [0,height); every
\* other surviving tick carries the food cell over unchanged.
C15_FoodRespawn ==
    [][ (TickStep /\ acc'[1].isAlive) =>
          IF \/ acc[1].foodLocation = Undefined
             \/ acc[1].foodLocation[1] = Attempt
          THEN /\ acc'[1].foodLocation # Undefined
               /\ OnBoard(acc'[1].foodLocation[1])
          ELSE acc'[1].foodLocation = acc[1].foodLocation ]_vars

\* A respawn after eating that put the new food on a cell of the body (no
\* cell is excluded from the draw).
C15_Witness ==
    /\ Alive
    /\ ticks >= 2
    /\ acc[1].snakeEvolution.oldTail = << >>
    /\ acc[1].foodLocation # Undefined
    /\ InBody(acc[1].foodLocation[1], acc[1].snake.body)

\* Positions of the children of the surface that carry the identity "food".
FoodElements == { i \in 1 .. Len(svg) : svg[i].id = "food" }

\* C16 (food rendering): once the renderer has processed a delivered state,
\* the surface holds no "food" element if that state has no food, and exactly
\* one if it has, placed at x = food.x * cellSize, y = food.y * cellSize with
\* width = height = cellSize.
C16_FoodRendering ==
    lastDelivered # Undefined =>
      IF lastDelivered[1].foodLocation = Undefined
      THEN FoodElements = {}
      ELSE /\ Cardinality(FoodElements) = 1
           /\ \A i \in FoodElements :
                /\ svg[i].x = ToString(lastDelivered[1].foodLocation[1].x * CELL_SIZE)
                /\ svg[i].y = ToString(lastDelivered[1].foodLocation[1].y * CELL_SIZE)
                /\ svg[i].width = ToString(CELL_SIZE)
                /\ svg[i].height = ToString(CELL_SIZE)

\* A delivery that carried the food over unchanged: the third tick of a
\* session, which did not eat.
C16_Witness ==
    /\ Alive
    /\ live
    /\ ticks >= 3
    /\ Len(acc[1].snake.body) = 2
    /\ lastDelivered = acc
    /\ FoodElements # {}

\* C17 (self-collision needs length 4): in a reachable state whose body has 2
\* or 3 cells, whichever heading is sampled, the new head the reducer computes
\* is no cell of the body, so a snake that short dies only by leaving the
\* board.
C17_SelfCollisionNeedsFour ==
    (Started /\ Len(acc[1].snake.body) <= 3) =>
      \A h \in Headings : ~InBody(newHead(acc[1], h), acc[1].snake.body)

\* A snake of exactly 4 cells that died by running into its own body.
C17_Witness ==
    /\ Dead
    /\ Len(acc[1].snake.body) = 4
    /\ InBody(newHead(acc[1], Last(sampled)), acc[1].snake.body)

\* Positions of the children of the surface that are snake cells.
CellElements == { i \in 1 .. Len(svg) : svg[i].id # "food" }

\* C18 (renderer tracks the body): once the renderer has processed a delivered
\* state, in a first session or in one that replaced another, the snake-cell
\* elements on the surface carry pairwise different identities, and these are
\* exactly the "x_y" keys of the cells of that state's body; and every cell a
\* delivered state lists as removed has an element on the surface when the
\* renderer looks it up.
C18_RendererTracksBody ==
    /\ [](lastDelivered # Undefined =>
            /\ \A i, j \in CellElements : i # j => svg[i].id # svg[j].id
            /\ { svg[i].id : i \in CellElements }
                 = { id(lastDelivered[1].snake.body[k]) :
                       k \in 1 .. Len(lastDelivered[1].snake.body) })
    /\ [][ (TickStep /\ nDelivered' = nDelivered + 1) =>
             \A k \in 1 .. Len(lastDelivered'[1].snakeEvolution.oldTail) :
               \E i \in CellElements :
                 svg[i].id = id(lastDelivered'[1].snakeEvolution.oldTail[k]) ]_vars

\* A session that replaced another one, whose snake has grown and moved on.
C18_Witness ==
    /\ destroyed
    /\ Alive
    /\ lastDelivered = acc
    /\ Len(acc[1].snake.body) >= 3
    /\ Len(acc[1].snakeEvolution.oldTail) = 1

\* C19 as stated: on every board with width >= 1 and height >= 1, every cell
\* of the body of every delivered state, the initial one included, is within
\* the board.
C19_BodyOnBoard ==
    ( /\ lastDelivered # Undefined
      /\ currentGame[1].board.width >= 1
      /\ currentGame[1].board.height >= 1 ) =>
      \A k \in 1 .. Len(lastDelivered[1].snake.body) :
        OnBoard(lastDelivered[1].snake.body[k])

\* The body length of the last state the renderer got, as a decimal numeral.
FinalLength == ToString(Len(lastDelivered[1].snake.body))

\* C20 as stated: in a session ended by death, endGame was called exactly
\* once, with the body length of the last delivered state, and a current
\* score was sent in that session whose last value is that same length.
C20_ScoresAgree ==
    Dead => /\ endCalls = 1
            /\ endScore = Some(" " \o FinalLength)
            /\ scoreText = Some("score: " \o FinalLength)

\* C20 (final score and displayed score, amended): in a session ended by
\* death, endGame was called exactly once, with the body length of the last
\* delivered state; if the snake survived at least one tick, a current score
\* was sent in that session and its last value is that same length; if it
\* died on the first tick, no current score was sent in that session.
C20_ScoresAgreeOnceShown ==
    Dead => /\ endCalls = 1
            /\ endScore = Some(" " \o FinalLength)
            /\ IF ticks >= 2
               THEN scoreText = Some("score: " \o FinalLength)
               ELSE scoreText = Undefined

\* A session that grew its snake, showed the score and then died.
C20_Witness ==
    /\ Dead
    /\ ticks >= 3
    /\ Len(acc[1].snake.body) >= 3
    /\ scoreText # Undefined

====
